---- MODULE Spec2Model ----
(***************************************************************************)
(* Model of the "ttp" timed-trace-point recorder (src/unnamed/part_000):   *)
(* ttp_emit appends timestamped events to a per-CPU storage without        *)
(* locking, ttp_write runs the control commands under ttp_lock, ttp_read   *)
(* drains the storages through a per-file cursor (struct fpos).            *)
(*                                                                         *)
(* Every function is cut into steps at its accesses to shared memory, so   *)
(* that the interleavings of emitters, command writers and readers that    *)
(* the kernel allows are the behaviours of the model.                      *)
(***************************************************************************)
EXTENDS Integers, Sequences, FiniteSets, TLC

(***************************************************************************)
(* Bounds of the model.                                                    *)
(***************************************************************************)
\* number of present CPUs (ttp_cpus is set once by ttp_init)
ttp_cpus == 2
\* module parameter max_events (300000 by default), kept small here
max_events == 2
\* the clocks are read at most MaxEmits times: one more armed emit than a
\* storage holds
MaxEmits == 3

(***************************************************************************)
(* Program constants.                                                      *)
(***************************************************************************)
MAX_INPUT_SIZE == 31
\* sizeof(tmp) in ttp_read
TMP_SIZE == 128
CLOCK_REALTIME == 0
CLOCK_MONOTONIC == 1
ENOMEM == 12
EBUSY == 16
EINVAL == 22
ENOSPC == 28
\* suppress_error is an unsigned char
UCHAR_MOD == 256

Cpus == 0 .. (ttp_cpus - 1)
Levels == {"task", "irq"}
Writers == {"w1", "w2"}
Sessions == {"f1"}
Ids == {5, 7}
\* sizes a reader passes to read(2)
Sizes == {TMP_SIZE - 1, TMP_SIZE}
\* wall-clock time is ahead of the monotonic clock
RealOffset == MaxEmits + 7
\* the cursor of a session is followed up to this event index
MaxCursor == max_events + 2

\* no value ttp_read returns (errnos end at -4095)
NoRet == 0 - 4096

Min(a, b) == IF a < b THEN a ELSE b

(***************************************************************************)
(* Strings are sequences of characters; the end of the sequence stands for *)
(* the terminating NUL.                                                    *)
(***************************************************************************)
NUL == "NUL"
CharAt(s, i) == IF i <= Len(s) THEN s[i] ELSE NUL
isspace(c) == c \in {" ", "\n", "\t"}

S_start == <<"s", "t", "a", "r", "t">>
S_stop == <<"s", "t", "o", "p">>
S_reset == <<"r", "e", "s", "e", "t">>
S_0 == <<"0">>
S_1 == <<"1">>
Spaces(n) == [i \in 1 .. n |-> " "]

\* what user space writes to the device
Inputs ==
    { S_start, S_stop, S_reset, S_0, S_1,
      <<"s", "t">>, <<>>, <<"x">>,
      S_start \o <<"\n">>, <<" ">> \o S_stop,
      S_stop \o Spaces(27) \o <<"z", "z">>,
      S_stop \o Spaces(27) \o <<"y">>, S_stop \o Spaces(27) }

\* strim(): cuts trailing white space in place and returns the position of
\* the first character that is no white space
RECURSIVE TrimRight(_)
TrimRight(s) ==
    IF Len(s) > 0 /\ isspace(s[Len(s)]) THEN TrimRight(SubSeq(s, 1, Len(s) - 1))
    ELSE s
RECURSIVE SkipSpaces(_, _)
SkipSpaces(s, i) ==
    IF i <= Len(s) /\ isspace(s[i]) THEN SkipSpaces(s, i + 1) ELSE i
strim(s) == [buf |-> TrimRight(s), ret |-> SkipSpaces(TrimRight(s), 1)]

\* strncmp(): 0 iff the strings agree on their first n characters, or up
\* to and including the NUL when that comes earlier
RECURSIVE strncmp_from(_, _, _, _)
strncmp_from(a, b, n, i) ==
    IF i > n THEN 0
    ELSE IF CharAt(a, i) # CharAt(b, i) THEN 1
    ELSE IF CharAt(a, i) = NUL THEN 0
    ELSE strncmp_from(a, b, n, i + 1)
strncmp(a, b, n) == strncmp_from(a, b, n, 1)

\* "%u" and "%llu"
Digits == <<"0", "1", "2", "3", "4", "5", "6", "7", "8", "9">>
RECURSIVE ToDec(_)
ToDec(n) ==
    IF n < 10 THEN <<Digits[n + 1]>>
    ELSE ToDec(n \div 10) \o <<Digits[(n % 10) + 1]>>
\* snprintf(tmp, sizeof(tmp), "%u,%u,%llu\n", ev->id, fpos->cpu, ev->abstime)
FormatLine(id, cpu, abstime) ==
    ToDec(id) \o <<",">> \o ToDec(cpu) \o <<",">> \o ToDec(abstime) \o <<"\n">>

\* src/unnamed/part_001 formats the line with "%u; %u; %llu\n"
FormatLine_001(id, cpu, abstime) ==
    ToDec(id) \o <<";", " ">> \o ToDec(cpu) \o <<";", " ">> \o ToDec(abstime)
        \o <<"\n">>

(***************************************************************************)
(* State.                                                                  *)
(***************************************************************************)
VARIABLES
    ttp_enabled,     \* static bool ttp_enabled
    ttp_clock,       \* static clockid_t ttp_clock
    suppress_error,  \* static unsigned char suppress_error
    storage,         \* storage[cpu] = [eventcount, events[0 .. max_events-1]]
    ttp_lock,        \* holder of the spinlock, or "free"
    e_pc,            \* e_pc[cpu][level]: position of the ttp_emit running there
    e_ev,            \* its local ev
    e_cnt,           \* the stor->eventcount it loaded for the capacity check
    e_se,            \* the suppress_error it loaded
    e_steps,         \* the steps it has taken since it was called
    w_pc,            \* w_pc[w]: position of writer w in ttp_write
    w_input,         \* its local input[] after strim()
    w_len,           \* its local len
    w_i,             \* its local i (the reset loop)
    w_ret,           \* its local ret, set on the way to unlock_out
    w_armed,         \* ttp_enabled as its command found it
    w_last,          \* the call of the writer that returned while the call of
                     \* another writer was under way, until that one returns
    open,            \* open[s]: the file of session s is open
    fpos,            \* fpos[s] = [cpu, event]: file->private_data
    r_pc,            \* position of the ttp_read of session s
    r_ret,           \* what the last ttp_read of the session returned
    now,             \* number of clock readings so far: the time
    logged,          \* number of "Max Events reached" messages printed
    dropped,         \* an event was dropped since capture was last armed
    stamped,         \* the clocks that stamped the events appended since
                     \* capture was last armed (empty while it is disarmed)
    drain,           \* [total, delivered]: the events the storages held when
                     \* capture was last stopped (0 while it is armed), and
                     \* the records each open session was delivered since
    kmod,            \* the module: [pc, i, live, err] of ttp_init/ttp_exit,
                     \* live being the allocations not yet freed
    corrupt,         \* a store went past the end of an events array
    reentered,       \* reentered[cpu]: ttp_emit was re-entered on that CPU
    calls,           \* calls[cpu]: ids of the armed ttp_emit calls since the
                     \* storage of the CPU was last empty
    tainted,         \* tainted[cpu]: calls[cpu] is not a plain sequence of
                     \* calls (re-entered, or reset under a running call)
    clean,           \* clean[s]: the session was opened on a quiescent,
                     \* disarmed recorder and nothing but its reads ran since
    out              \* out[s]: the lines copied to the reader since open,
                     \* kept for as long as clean[s]

vars == <<ttp_enabled, ttp_clock, suppress_error, storage, ttp_lock,
          e_pc, e_ev, e_cnt, e_se, e_steps, w_pc, w_input, w_len, w_i, w_ret,
          w_armed, w_last, open, fpos, r_pc, r_ret, now, logged, dropped, stamped, kmod,
          drain, corrupt, reentered, calls, tainted, clean, out>>

shared == <<ttp_enabled, ttp_clock, suppress_error, storage>>
emit_vars == <<e_pc, e_ev, e_cnt, e_se, e_steps>>
write_vars ==
    <<w_pc, w_input, w_len, w_i, w_ret, w_armed, w_last, ttp_lock>>
read_vars == <<open, fpos, r_pc, r_ret, out>>
emit_ghost ==
    <<now, logged, dropped, stamped, kmod, drain, corrupt, reentered, calls,
      tainted>>

NoEvent == [id |-> 0, abstime |-> 0]
\* the clock a time stamp was taken from
ClockOf(abstime) ==
    IF abstime >= RealOffset THEN CLOCK_REALTIME ELSE CLOCK_MONOTONIC
\* the events held by the storages of CPU u and the CPUs behind it
RECURSIVE EventsFrom(_, _)
EventsFrom(u, stor) ==
    IF u >= ttp_cpus THEN 0 ELSE stor[u].eventcount + EventsFrom(u + 1, stor)
\* what ttp_init allocates: the table of storages and one events array for
\* each CPU
Allocations ==
    {[kind |-> "storage", cpu |-> 0]} \cup
    {[kind |-> "events", cpu |-> u] : u \in Cpus}
\* what a read past the end of an events array may find
Garbage == {[id |-> 8, abstime |-> 1], [id |-> 9, abstime |-> 2]}

\* no call of the writer returned during the call that is under way
NoCall == [ended |-> FALSE, input |-> <<>>, len |-> 0, ret |-> 0,
           armed |-> FALSE]

\* a command or an armed emit ends the undisturbed life of every session
Disturb ==
    /\ clean' = [s \in Sessions |-> FALSE]
    /\ out' = [s \in Sessions |-> <<>>]

EmitIdle == \A u \in Cpus : \A l \in Levels : e_pc[u][l] = "idle"
WriteIdle == \A w \in Writers : w_pc[w] = "idle"

\* the zero-initialised statics, the zeroed memory kzalloc and kvzalloc
\* hand out, and nobody using the device
Zeroed ==
    /\ ttp_enabled = FALSE
    /\ ttp_clock = CLOCK_REALTIME
    /\ suppress_error = 0
    /\ storage = [u \in Cpus |->
                    [eventcount |-> 0,
                     events |-> [i \in 0 .. (max_events - 1) |-> NoEvent]]]
    /\ ttp_lock = "free"
    /\ e_pc = [u \in Cpus |-> [l \in Levels |-> "idle"]]
    /\ e_ev = [u \in Cpus |-> [l \in Levels |-> NoEvent]]
    /\ e_cnt = [u \in Cpus |-> [l \in Levels |-> 0]]
    /\ e_se = [u \in Cpus |-> [l \in Levels |-> 0]]
    /\ e_steps = [u \in Cpus |-> [l \in Levels |-> 0]]
    /\ w_pc = [w \in Writers |-> "idle"]
    /\ w_input = [w \in Writers |-> <<>>]
    /\ w_len = [w \in Writers |-> 0]
    /\ w_i = [w \in Writers |-> 0]
    /\ w_ret = [w \in Writers |-> 0]
    /\ w_armed = [w \in Writers |-> FALSE]
    /\ w_last = [w \in Writers |-> NoCall]
    /\ open = [s \in Sessions |-> FALSE]
    /\ fpos = [s \in Sessions |-> [cpu |-> 0, event |-> 0]]
    /\ r_pc = [s \in Sessions |-> "idle"]
    /\ r_ret = [s \in Sessions |-> NoRet]
    /\ now = 0
    /\ logged = 0
    /\ dropped = FALSE
    /\ stamped = {}
    /\ drain = [total |-> 0, delivered |-> [s \in Sessions |-> 0]]
    /\ corrupt = FALSE
    /\ reentered = [u \in Cpus |-> FALSE]
    /\ calls = [u \in Cpus |-> <<>>]
    /\ tainted = [u \in Cpus |-> FALSE]
    /\ out = [s \in Sessions |-> <<>>]
    /\ clean = [s \in Sessions |-> FALSE]

\* ttp_init (successful): zeroed storages, everything else zero-initialised
Init ==
    /\ Zeroed
    /\ kmod = [pc |-> "live", i |-> ttp_cpus, live |-> Allocations, err |-> 0]

\* the module before ttp_init runs: nothing is allocated
InitLoad ==
    /\ Zeroed
    /\ kmod = [pc |-> "init", i |-> 0, live |-> {}, err |-> 0]

(***************************************************************************)
(* ttp_init and ttp_exit.                                                  *)
(***************************************************************************)
device ==
    <<shared, emit_vars, write_vars, read_vars, now, logged, dropped, stamped,
      drain, corrupt, reentered, calls, tainted, clean>>

\* lines 244-248: the table of storages is allocated (ok tells whether
\* kzalloc succeeded)
InitStorage(ok) ==
    /\ kmod.pc = "init"
    /\ kmod' = IF ok
               THEN [kmod EXCEPT !.pc = "events", !.i = 0,
                                 !.live = @ \cup {[kind |-> "storage",
                                                   cpu |-> 0]}]
               ELSE [kmod EXCEPT !.pc = "failed", !.err = -ENOMEM]
    /\ UNCHANGED device

\* lines 250-257, one round of the loop: the events array of CPU i is
\* allocated (ok tells whether kvzalloc succeeded); when it is not,
\* ttp_init returns -ENOMEM and frees nothing ("fixme - misses unrolling")
InitEvents(ok) ==
    /\ kmod.pc = "events"
    /\ kmod.i < ttp_cpus
    /\ kmod' = IF ok
               THEN [kmod EXCEPT !.pc = IF kmod.i + 1 < ttp_cpus
                                       THEN "events" ELSE "register",
                                 !.i = @ + 1,
                                 !.live = @ \cup {[kind |-> "events",
                                                   cpu |-> kmod.i]}]
               ELSE [kmod EXCEPT !.pc = "failed", !.err = -ENOMEM]
    /\ UNCHANGED device

\* lines 259-263: misc_register returns err; when it is not 0, ttp_init
\* returns it and frees nothing
InitRegister(err) ==
    /\ kmod.pc = "register"
    /\ kmod' = IF err = 0
               THEN [kmod EXCEPT !.pc = "live"]
               ELSE [kmod EXCEPT !.pc = "failed", !.err = err]
    /\ UNCHANGED device

\* lines 268-283: the module is removed once nobody uses the device; the
\* events arrays and the table are freed
Exit ==
    /\ kmod.pc = "live"
    /\ EmitIdle /\ WriteIdle
    /\ \A s \in Sessions : ~open[s]
    /\ kmod' = [kmod EXCEPT !.pc = "gone", !.live = {}]
    /\ UNCHANGED device

(***************************************************************************)
(* ttp_emit.  On one CPU an emit called from interrupt context runs on top *)
(* of the interrupted emit, which resumes only when the nested one has     *)
(* returned; an interrupt that finds no emit running is an ordinary call.  *)
(***************************************************************************)
Runnable(u, l) == l = "irq" \/ e_pc[u]["irq"] = "idle"
MayCall(u, l) ==
    /\ e_pc[u][l] = "idle"
    /\ IF l = "task" THEN e_pc[u]["irq"] = "idle" ELSE e_pc[u]["task"] # "idle"
\* running emits that have not read the clock yet
BeforeClock == {c \in Cpus \X Levels : e_pc[c[1]][c[2]] = "clock"}

EmitReturn(u, l) ==
    /\ e_pc' = [e_pc EXCEPT ![u][l] = "idle"]
    /\ e_ev' = [e_ev EXCEPT ![u][l] = NoEvent]
    /\ e_cnt' = [e_cnt EXCEPT ![u][l] = 0]
    /\ e_se' = [e_se EXCEPT ![u][l] = 0]
    /\ e_steps' = [e_steps EXCEPT ![u][l] = 0]

\* ttp_emit without the test of ttp_enabled
EmitCall_unchecked(u, l, id, budget) ==
    /\ MayCall(u, l)
    /\ now + Cardinality(BeforeClock) < budget
    /\ e_pc' = [e_pc EXCEPT ![u][l] = "clock"]
    /\ e_ev' = [e_ev EXCEPT ![u][l] = [id |-> id, abstime |-> 0]]
    /\ e_steps' = [e_steps EXCEPT ![u][l] = 1]
    /\ UNCHANGED <<e_cnt, e_se>>
    /\ reentered' = [reentered EXCEPT ![u] = @ \/ l = "irq"]
    /\ tainted' = [tainted EXCEPT ![u] = @ \/ l = "irq"]
    /\ calls' = [calls EXCEPT ![u] = Append(@, id)]
    /\ Disturb
    /\ UNCHANGED <<shared, write_vars, open, fpos, r_pc, r_ret, now, logged,
                   dropped, corrupt, stamped, kmod, drain>>

\* lines 41-49: the call and the unlocked test of ttp_enabled (budget is
\* the number of clock readings the model follows)
EmitCall(u, l, id, budget) ==
    /\ MayCall(u, l)
    /\ now + Cardinality(BeforeClock) < budget
    /\ IF ~ttp_enabled
       THEN UNCHANGED <<emit_vars, reentered, calls, tainted, clean, out>>
       ELSE /\ e_pc' = [e_pc EXCEPT ![u][l] = "clock"]
            /\ e_ev' = [e_ev EXCEPT ![u][l] = [id |-> id, abstime |-> 0]]
            /\ e_steps' = [e_steps EXCEPT ![u][l] = 1]
            /\ UNCHANGED <<e_cnt, e_se>>
            /\ reentered' = [reentered EXCEPT ![u] = @ \/ l = "irq"]
            /\ tainted' = [tainted EXCEPT ![u] = @ \/ l = "irq"]
            /\ calls' = [calls EXCEPT ![u] = Append(@, id)]
            /\ Disturb
    /\ UNCHANGED <<shared, write_vars, open, fpos, r_pc, r_ret, now, logged,
                   dropped, corrupt, stamped, kmod, drain>>

\* lines 51-73: the clock selected by ttp_clock is read, the CPU is found
EmitClock(u, l) ==
    /\ e_pc[u][l] = "clock"
    /\ Runnable(u, l)
    /\ IF ttp_clock \notin {CLOCK_REALTIME, CLOCK_MONOTONIC} \/ u >= ttp_cpus
       THEN EmitReturn(u, l) /\ UNCHANGED now
       ELSE /\ e_ev' = [e_ev EXCEPT ![u][l].abstime =
                          IF ttp_clock = CLOCK_REALTIME
                          THEN RealOffset + now ELSE now]
            /\ now' = now + 1
            /\ e_pc' = [e_pc EXCEPT ![u][l] = "cap"]
            /\ e_steps' = [e_steps EXCEPT ![u][l] = @ + 1]
            /\ UNCHANGED <<e_cnt, e_se>>
    /\ UNCHANGED <<shared, write_vars, read_vars, logged, dropped, corrupt,
                   stamped, kmod, drain,
                   reentered, calls, tainted, clean>>

\* the capacity test written with > for >=
EmitCap_gt(u, l) ==
    /\ e_pc[u][l] = "cap"
    /\ Runnable(u, l)
    /\ IF storage[u].eventcount > max_events
       THEN /\ e_pc' = [e_pc EXCEPT ![u][l] = "drop"]
            /\ e_se' = [e_se EXCEPT ![u][l] = suppress_error]
            /\ UNCHANGED e_cnt
       ELSE /\ e_pc' = [e_pc EXCEPT ![u][l] = "store"]
            /\ e_cnt' = [e_cnt EXCEPT ![u][l] = storage[u].eventcount]
            /\ UNCHANGED e_se
    /\ e_steps' = [e_steps EXCEPT ![u][l] = @ + 1]
    /\ UNCHANGED <<e_ev, shared, write_vars, read_vars, emit_ghost, clean>>

\* lines 75-77: stor->eventcount is loaded and compared with max_events;
\* on a full storage suppress_error is loaded
EmitCap(u, l) ==
    /\ e_pc[u][l] = "cap"
    /\ Runnable(u, l)
    /\ IF storage[u].eventcount >= max_events
       THEN /\ e_pc' = [e_pc EXCEPT ![u][l] = "drop"]
            /\ e_se' = [e_se EXCEPT ![u][l] = suppress_error]
            /\ UNCHANGED e_cnt
       ELSE /\ e_pc' = [e_pc EXCEPT ![u][l] = "store"]
            /\ e_cnt' = [e_cnt EXCEPT ![u][l] = storage[u].eventcount]
            /\ UNCHANGED e_se
    /\ e_steps' = [e_steps EXCEPT ![u][l] = @ + 1]
    /\ UNCHANGED <<e_ev, shared, write_vars, read_vars, emit_ghost, clean>>

\* lines 77-79: suppress_error++ is stored back, the first drop is logged
EmitDrop(u, l) ==
    /\ e_pc[u][l] = "drop"
    /\ Runnable(u, l)
    /\ suppress_error' = (e_se[u][l] + 1) % UCHAR_MOD
    /\ logged' = IF e_se[u][l] = 0 THEN logged + 1 ELSE logged
    /\ dropped' = TRUE
    /\ EmitReturn(u, l)
    /\ UNCHANGED <<ttp_enabled, ttp_clock, storage, write_vars, read_vars,
                   now, corrupt, stamped, kmod, drain, reentered, calls, tainted,
                   clean>>

\* the store written as stor->events[++stor->eventcount] = ev
EmitStore_preinc(u, l) ==
    /\ e_pc[u][l] = "store"
    /\ Runnable(u, l)
    /\ \E idx \in {e_cnt[u][l], storage[u].eventcount} :
        IF idx + 1 < max_events
        THEN /\ storage' = [storage EXCEPT ![u].events[idx + 1] = e_ev[u][l],
                                           ![u].eventcount = idx + 1]
             /\ UNCHANGED corrupt
        ELSE /\ storage' = [storage EXCEPT ![u].eventcount = idx + 1]
             /\ corrupt' = TRUE
    /\ EmitReturn(u, l)
    /\ UNCHANGED <<ttp_enabled, ttp_clock, suppress_error, write_vars,
                   read_vars, now, logged, dropped, kmod, drain, reentered,
                   calls, tainted, clean>>
    /\ stamped' = IF ttp_enabled
                  THEN stamped \cup {ClockOf(e_ev[u][l].abstime)}
                  ELSE stamped

\* the store made under ttp_lock, which ttp_emit would have to wait for
EmitStore_locked(u, l) ==
    /\ e_pc[u][l] = "store"
    /\ Runnable(u, l)
    /\ ttp_lock = "free"
    /\ \E idx \in {e_cnt[u][l], storage[u].eventcount} :
        IF idx < max_events
        THEN /\ storage' = [storage EXCEPT ![u].events[idx] = e_ev[u][l],
                                           ![u].eventcount = idx + 1]
             /\ UNCHANGED corrupt
        ELSE /\ storage' = [storage EXCEPT ![u].eventcount = idx + 1]
             /\ corrupt' = TRUE
    /\ EmitReturn(u, l)
    /\ UNCHANGED <<ttp_enabled, ttp_clock, suppress_error, write_vars,
                   read_vars, now, logged, dropped, kmod, drain, reentered,
                   calls, tainted, clean>>
    /\ stamped' = IF ttp_enabled
                  THEN stamped \cup {ClockOf(e_ev[u][l].abstime)}
                  ELSE stamped

\* the store going to the storage of the next CPU
EmitStore_other(u, l) ==
    /\ e_pc[u][l] = "store"
    /\ Runnable(u, l)
    /\ LET v == (u + 1) % ttp_cpus IN
       \E idx \in {e_cnt[u][l], storage[v].eventcount} :
        IF idx < max_events
        THEN /\ storage' = [storage EXCEPT ![v].events[idx] = e_ev[u][l],
                                           ![v].eventcount = idx + 1]
             /\ UNCHANGED corrupt
        ELSE /\ storage' = [storage EXCEPT ![v].eventcount = idx + 1]
             /\ corrupt' = TRUE
    /\ EmitReturn(u, l)
    /\ UNCHANGED <<ttp_enabled, ttp_clock, suppress_error, write_vars,
                   read_vars, now, logged, dropped, kmod, drain, reentered,
                   calls, tainted, clean>>
    /\ stamped' = IF ttp_enabled
                  THEN stamped \cup {ClockOf(e_ev[u][l].abstime)}
                  ELSE stamped

\* line 82: stor->events[stor->eventcount++] = ev.  The compiler may use
\* the count loaded for the test of line 76 or load it again.
EmitStore(u, l) ==
    /\ e_pc[u][l] = "store"
    /\ Runnable(u, l)
    /\ \E idx \in {e_cnt[u][l], storage[u].eventcount} :
        IF idx < max_events
        THEN /\ storage' = [storage EXCEPT ![u].events[idx] = e_ev[u][l],
                                           ![u].eventcount = idx + 1]
             /\ UNCHANGED corrupt
        ELSE /\ storage' = [storage EXCEPT ![u].eventcount = idx + 1]
             /\ corrupt' = TRUE
    /\ EmitReturn(u, l)
    /\ UNCHANGED <<ttp_enabled, ttp_clock, suppress_error, write_vars,
                   read_vars, now, logged, dropped, kmod, drain, reentered,
                   calls, tainted, clean>>
    /\ stamped' = IF ttp_enabled
                  THEN stamped \cup {ClockOf(e_ev[u][l].abstime)}
                  ELSE stamped

\* the next step of the emit running on CPU u at level l
EmitStep(u, l) ==
    EmitClock(u, l) \/ EmitCap(u, l) \/ EmitDrop(u, l) \/ EmitStore(u, l)

(***************************************************************************)
(* ttp_write.                                                              *)
(***************************************************************************)
\* lines 176-213: the chain of strncmp(input, "...", len) tests
Command(input, len) ==
    IF strncmp(input, S_start, len) = 0 THEN "start"
    ELSE IF strncmp(input, S_stop, len) = 0 THEN "stop"
    ELSE IF strncmp(input, S_reset, len) = 0 THEN "reset"
    ELSE IF strncmp(input, S_0, len) = 0 THEN "0"
    ELSE IF strncmp(input, S_1, len) = 0 THEN "1"
    ELSE "invalid"

\* the call without lines 166-167: all the bytes written are taken
WriteCall_unclamped(w, in, fault) ==
    /\ w_pc[w] = "idle"
    /\ LET len == Len(in) IN
       IF fault
       THEN UNCHANGED <<w_pc, w_input, w_len, w_last, clean, out>>
       ELSE /\ w_input' = [w_input EXCEPT ![w] = strim(SubSeq(in, 1, len)).buf]
            /\ w_len' = [w_len EXCEPT ![w] = len]
            /\ w_pc' = [w_pc EXCEPT ![w] = "lock"]
            /\ w_last' = [w_last EXCEPT ![w] = NoCall]
            /\ Disturb
    /\ UNCHANGED <<shared, emit_vars, emit_ghost, open, fpos, r_pc, r_ret,
                   w_i, w_ret, w_armed, ttp_lock>>

\* lines 157-173: len is clamped, the bytes are copied in, NUL-terminated
\* and trimmed; the value strim() returns is not used
WriteCall(w, in, fault) ==
    /\ w_pc[w] = "idle"
    /\ LET len == Min(Len(in), MAX_INPUT_SIZE) IN
       IF fault
       THEN \* the copy failed, the call returns an error: nothing is touched
            UNCHANGED <<w_pc, w_input, w_len, w_last, clean, out>>
       ELSE /\ w_input' = [w_input EXCEPT ![w] = strim(SubSeq(in, 1, len)).buf]
            /\ w_len' = [w_len EXCEPT ![w] = len]
            /\ w_pc' = [w_pc EXCEPT ![w] = "lock"]
            /\ w_last' = [w_last EXCEPT ![w] = NoCall]
            /\ Disturb
    /\ UNCHANGED <<shared, emit_vars, emit_ghost, open, fpos, r_pc, r_ret,
                   w_i, w_ret, w_armed, ttp_lock>>

\* a lock that is taken without waiting for its holder
WriteLock_nolock(w) ==
    /\ w_pc[w] = "lock"
    /\ ttp_lock' = w
    /\ w_pc' = [w_pc EXCEPT ![w] = "cmd"]
    /\ UNCHANGED <<shared, emit_vars, emit_ghost, read_vars, w_input, w_len,
                   w_i, w_ret, w_armed, w_last, clean>>

\* line 175: spin_lock(&ttp_lock)
WriteLock(w) ==
    /\ w_pc[w] = "lock"
    /\ ttp_lock = "free"
    /\ ttp_lock' = w
    /\ w_pc' = [w_pc EXCEPT ![w] = "cmd"]
    /\ UNCHANGED <<shared, emit_vars, emit_ghost, read_vars, w_input, w_len,
                   w_i, w_ret, w_armed, w_last, clean>>

\* ret is set and the writer goes to unlock_out
WriteDone(w, ret) ==
    /\ w_ret' = [w_ret EXCEPT ![w] = ret]
    /\ w_pc' = [w_pc EXCEPT ![w] = "unlock"]

\* "start" without the test of ttp_enabled
CmdStart_unchecked(w) ==
    /\ ttp_enabled' = TRUE
    /\ WriteDone(w, w_len[w])
    /\ UNCHANGED <<ttp_clock, suppress_error, storage, w_i>>

\* lines 176-183: "start"
CmdStart(w) ==
    IF ttp_enabled
    THEN WriteDone(w, -EBUSY) /\ UNCHANGED <<shared, w_i>>
    ELSE /\ ttp_enabled' = TRUE
         /\ WriteDone(w, w_len[w])
         /\ UNCHANGED <<ttp_clock, suppress_error, storage, w_i>>

\* "stop" refused when capture is not armed, as "start" is when it is
CmdStop_refusing(w) ==
    IF ~ttp_enabled
    THEN WriteDone(w, -EBUSY) /\ UNCHANGED <<shared, w_i>>
    ELSE /\ ttp_enabled' = FALSE
         /\ WriteDone(w, w_len[w])
         /\ UNCHANGED <<ttp_clock, suppress_error, storage, w_i>>

\* lines 184-186: "stop"
CmdStop(w) ==
    /\ ttp_enabled' = FALSE
    /\ WriteDone(w, w_len[w])
    /\ UNCHANGED <<ttp_clock, suppress_error, storage, w_i>>

\* "reset" without the test of ttp_enabled
CmdReset_unchecked(w) ==
    /\ w_pc' = [w_pc EXCEPT ![w] = "reset"]
    /\ w_i' = [w_i EXCEPT ![w] = 0]
    /\ UNCHANGED <<shared, w_ret>>

\* lines 187-193: "reset" is refused while armed, else the loop is entered
CmdReset(w) ==
    IF ttp_enabled
    THEN WriteDone(w, -EINVAL) /\ UNCHANGED <<shared, w_i>>
    ELSE /\ w_pc' = [w_pc EXCEPT ![w] = "reset"]
         /\ w_i' = [w_i EXCEPT ![w] = 0]
         /\ UNCHANGED <<shared, w_ret>>

\* a clock command without the test of ttp_enabled
CmdClock_unchecked(w, clock) ==
    /\ ttp_clock' = clock
    /\ WriteDone(w, w_len[w])
    /\ UNCHANGED <<ttp_enabled, suppress_error, storage, w_i>>

\* "0" and "1" selecting the clocks 1 and 2
CmdClock_shifted(w, clock) ==
    IF ttp_enabled
    THEN WriteDone(w, -EBUSY) /\ UNCHANGED <<shared, w_i>>
    ELSE /\ ttp_clock' = clock + 1
         /\ WriteDone(w, w_len[w])
         /\ UNCHANGED <<ttp_enabled, suppress_error, storage, w_i>>

\* lines 196-209: "0" and "1" select the clock
CmdClock(w, clock) ==
    IF ttp_enabled
    THEN WriteDone(w, -EBUSY) /\ UNCHANGED <<shared, w_i>>
    ELSE /\ ttp_clock' = clock
         /\ WriteDone(w, w_len[w])
         /\ UNCHANGED <<ttp_enabled, suppress_error, storage, w_i>>

\* lines 210-213: anything else
CmdInvalid(w) ==
    WriteDone(w, -EINVAL) /\ UNCHANGED <<shared, w_i>>

\* lines 176-215: the command is carried out under the lock
WriteCmd(w) ==
    /\ w_pc[w] = "cmd"
    /\ LET cmd == Command(w_input[w], w_len[w]) IN
       CASE cmd = "start" -> CmdStart(w)
         [] cmd = "stop" -> CmdStop(w)
         [] cmd = "reset" -> CmdReset(w)
         [] cmd = "0" -> CmdClock(w, CLOCK_REALTIME)
         [] cmd = "1" -> CmdClock(w, CLOCK_MONOTONIC)
         [] OTHER -> CmdInvalid(w)
    /\ w_armed' = [w_armed EXCEPT ![w] = ttp_enabled]
    /\ dropped' = (dropped /\ (ttp_enabled \/ ~ttp_enabled'))
    /\ stamped' = IF ttp_enabled' = ttp_enabled THEN stamped ELSE {}
    /\ drain' = IF ttp_enabled' = ttp_enabled THEN drain
                ELSE [total |-> IF ttp_enabled THEN EventsFrom(0, storage)
                                ELSE 0,
                      delivered |-> [s \in Sessions |-> 0]]
    /\ UNCHANGED <<emit_vars, now, logged, corrupt, kmod, reentered, calls,
                   tainted, read_vars, w_input, w_len, w_last, ttp_lock,
                   clean>>

\* the reset loop started at i = 1: the count of CPU 0 is left alone
WriteReset_skipfirst(w) ==
    /\ w_pc[w] = "reset"
    /\ LET i == w_i[w] IN
       /\ storage' = IF i = 0 THEN storage
                     ELSE [storage EXCEPT ![i].eventcount = 0]
       /\ calls' = [calls EXCEPT ![i] = <<>>]
       /\ tainted' = [tainted EXCEPT ![i] = \E l \in Levels : e_pc[i][l] # "idle"]
       /\ IF i + 1 < ttp_cpus
          THEN /\ w_i' = [w_i EXCEPT ![w] = i + 1]
               /\ UNCHANGED <<w_pc, w_ret>>
          ELSE /\ WriteDone(w, w_len[w])
               /\ UNCHANGED w_i
    /\ UNCHANGED <<ttp_enabled, ttp_clock, suppress_error, emit_vars,
                   read_vars, w_input, w_len, w_armed, w_last, ttp_lock, now,
                   logged,
                   dropped, corrupt, stamped, kmod, drain, reentered, clean>>

\* lines 193-195: one round of the loop that zeroes the event counts
WriteReset(w) ==
    /\ w_pc[w] = "reset"
    /\ LET i == w_i[w] IN
       /\ storage' = [storage EXCEPT ![i].eventcount = 0]
       /\ calls' = [calls EXCEPT ![i] = <<>>]
       /\ tainted' = [tainted EXCEPT ![i] = \E l \in Levels : e_pc[i][l] # "idle"]
       /\ IF i + 1 < ttp_cpus
          THEN /\ w_i' = [w_i EXCEPT ![w] = i + 1]
               /\ UNCHANGED <<w_pc, w_ret>>
          ELSE /\ WriteDone(w, w_len[w])
               /\ UNCHANGED w_i
    /\ UNCHANGED <<ttp_enabled, ttp_clock, suppress_error, emit_vars,
                   read_vars, w_input, w_len, w_armed, w_last, ttp_lock, now,
                   logged,
                   dropped, corrupt, stamped, kmod, drain, reentered, clean>>

\* lines 217-220: spin_unlock(&ttp_lock); return ret
WriteUnlock(w) ==
    /\ w_pc[w] = "unlock"
    /\ ttp_lock' = "free"
    /\ w_pc' = [w_pc EXCEPT ![w] = "idle"]
    /\ w_input' = [w_input EXCEPT ![w] = <<>>]
    /\ w_len' = [w_len EXCEPT ![w] = 0]
    /\ w_i' = [w_i EXCEPT ![w] = 0]
    /\ w_ret' = [w_ret EXCEPT ![w] = 0]
    /\ w_armed' = [w_armed EXCEPT ![w] = FALSE]
    /\ w_last' = [x \in Writers |->
                    IF x = w /\ \E y \in Writers \ {w} : w_pc[y] # "idle"
                    THEN [ended |-> TRUE, input |-> w_input[w],
                          len |-> w_len[w], ret |-> w_ret[w],
                          armed |-> w_armed[w]]
                    ELSE NoCall]
    /\ UNCHANGED <<shared, emit_vars, emit_ghost, read_vars, clean>>

(***************************************************************************)
(* ttp_open, ttp_release, ttp_read.                                        *)
(***************************************************************************)
\* lines 90-101: kzalloc gives the cursor (0, 0)
Open(s) ==
    /\ ~open[s]
    /\ open' = [open EXCEPT ![s] = TRUE]
    /\ fpos' = [fpos EXCEPT ![s] = [cpu |-> 0, event |-> 0]]
    /\ out' = [out EXCEPT ![s] = <<>>]
    /\ clean' = [clean EXCEPT ![s] = ~ttp_enabled /\ EmitIdle /\ WriteIdle]
    /\ drain' = [drain EXCEPT !.delivered[s] = 0]
    /\ UNCHANGED <<shared, emit_vars, write_vars, r_pc, r_ret, now, logged, dropped, stamped, kmod, corrupt,
                   reentered, calls, tainted>>

\* lines 103-112
Release(s) ==
    /\ open[s]
    /\ r_pc[s] = "idle"
    /\ open' = [open EXCEPT ![s] = FALSE]
    /\ fpos' = [fpos EXCEPT ![s] = [cpu |-> 0, event |-> 0]]
    /\ r_ret' = [r_ret EXCEPT ![s] = NoRet]
    /\ out' = [out EXCEPT ![s] = <<>>]
    /\ clean' = [clean EXCEPT ![s] = FALSE]
    /\ drain' = [drain EXCEPT !.delivered[s] = 0]
    /\ UNCHANGED <<shared, emit_vars, write_vars, r_pc, now, logged, dropped,
                   stamped, kmod, corrupt, reentered, calls, tainted>>

\* the size of the buffer tested before ttp_enabled
ReadCall_sizefirst(s, size) ==
    /\ open[s]
    /\ r_pc[s] = "idle"
    /\ fpos[s].event < MaxCursor
    /\ IF size < TMP_SIZE
       THEN r_ret' = [r_ret EXCEPT ![s] = -ENOSPC] /\ UNCHANGED r_pc
       ELSE IF ttp_enabled
       THEN r_ret' = [r_ret EXCEPT ![s] = -EBUSY] /\ UNCHANGED r_pc
       ELSE /\ r_pc' = [r_pc EXCEPT ![s] = "again"]
            /\ r_ret' = [r_ret EXCEPT ![s] = NoRet]
    /\ UNCHANGED <<shared, emit_vars, emit_ghost, write_vars, open, fpos, out,
                   clean>>

\* the read without the test of the size of the buffer
ReadCall_anysize(s, size) ==
    /\ open[s]
    /\ r_pc[s] = "idle"
    /\ fpos[s].event < MaxCursor
    /\ IF ttp_enabled
       THEN r_ret' = [r_ret EXCEPT ![s] = -EBUSY] /\ UNCHANGED r_pc
       ELSE /\ r_pc' = [r_pc EXCEPT ![s] = "again"]
            /\ r_ret' = [r_ret EXCEPT ![s] = NoRet]
    /\ UNCHANGED <<shared, emit_vars, emit_ghost, write_vars, open, fpos, out,
                   clean>>

\* lines 123-132: the tests made before the cursor is looked at (storage is
\* never NULL once ttp_init has succeeded)
ReadCall(s, size) ==
    /\ open[s]
    /\ r_pc[s] = "idle"
    /\ fpos[s].event < MaxCursor
    /\ IF ttp_enabled
       THEN r_ret' = [r_ret EXCEPT ![s] = -EBUSY] /\ UNCHANGED r_pc
       ELSE IF size < TMP_SIZE
       THEN r_ret' = [r_ret EXCEPT ![s] = -ENOSPC] /\ UNCHANGED r_pc
       ELSE /\ r_pc' = [r_pc EXCEPT ![s] = "again"]
            /\ r_ret' = [r_ret EXCEPT ![s] = NoRet]
    /\ UNCHANGED <<shared, emit_vars, emit_ghost, write_vars, open, fpos, out,
                   clean>>

\* the step to the next storage without fpos->event = 0
ReadAgain_keepevent(s) ==
    /\ r_pc[s] = "again"
    /\ IF fpos[s].cpu = ttp_cpus
       THEN /\ r_ret' = [r_ret EXCEPT ![s] = 0]
            /\ r_pc' = [r_pc EXCEPT ![s] = "idle"]
            /\ UNCHANGED fpos
       ELSE IF fpos[s].event = storage[fpos[s].cpu].eventcount
       THEN /\ fpos' = [fpos EXCEPT ![s].cpu = @ + 1]
            /\ UNCHANGED <<r_pc, r_ret>>
       ELSE /\ r_pc' = [r_pc EXCEPT ![s] = "fetch"]
            /\ UNCHANGED <<fpos, r_ret>>
    /\ UNCHANGED <<shared, emit_vars, emit_ghost, write_vars, open, out, clean>>

\* the cursor rewound when the end is reported
ReadAgain_rewind(s) ==
    /\ r_pc[s] = "again"
    /\ IF fpos[s].cpu = ttp_cpus
       THEN /\ r_ret' = [r_ret EXCEPT ![s] = 0]
            /\ r_pc' = [r_pc EXCEPT ![s] = "idle"]
            /\ fpos' = [fpos EXCEPT ![s] = [cpu |-> 0, event |-> 0]]
       ELSE IF fpos[s].event = storage[fpos[s].cpu].eventcount
       THEN /\ fpos' = [fpos EXCEPT ![s] = [cpu |-> @.cpu + 1, event |-> 0]]
            /\ UNCHANGED <<r_pc, r_ret>>
       ELSE /\ r_pc' = [r_pc EXCEPT ![s] = "fetch"]
            /\ UNCHANGED <<fpos, r_ret>>
    /\ UNCHANGED <<shared, emit_vars, emit_ghost, write_vars, open, out, clean>>

\* lines 134-143: one pass through the label again
ReadAgain(s) ==
    /\ r_pc[s] = "again"
    /\ IF fpos[s].cpu = ttp_cpus
       THEN /\ r_ret' = [r_ret EXCEPT ![s] = 0]
            /\ r_pc' = [r_pc EXCEPT ![s] = "idle"]
            /\ UNCHANGED fpos
       ELSE IF fpos[s].event = storage[fpos[s].cpu].eventcount
       THEN /\ fpos' = [fpos EXCEPT ![s] = [cpu |-> @.cpu + 1, event |-> 0]]
            /\ UNCHANGED <<r_pc, r_ret>>
       ELSE /\ r_pc' = [r_pc EXCEPT ![s] = "fetch"]
            /\ UNCHANGED <<fpos, r_ret>>
    /\ UNCHANGED <<shared, emit_vars, emit_ghost, write_vars, open, out, clean>>

\* the event the cursor of s points to; past the end of the array anything
Fetched(s) ==
    IF fpos[s].event < max_events
    THEN {storage[fpos[s].cpu].events[fpos[s].event]}
    ELSE Garbage

\* lines 145-153: the event is fetched and formatted, the line is copied
\* out (copied tells whether copy_to_user succeeded), the cursor moves on
ReadFetch(s, copied) ==
    /\ r_pc[s] = "fetch"
    /\ \E ev \in Fetched(s) :
        LET tmp == FormatLine(ev.id, fpos[s].cpu, ev.abstime) IN
        IF copied
        THEN /\ r_ret' = [r_ret EXCEPT ![s] = Len(tmp)]
             /\ out' = [out EXCEPT ![s] = IF clean[s] THEN Append(@, tmp) ELSE @]
             /\ UNCHANGED clean
        ELSE /\ r_ret' = [r_ret EXCEPT ![s] = -EINVAL]
             /\ clean' = [clean EXCEPT ![s] = FALSE]
             /\ out' = [out EXCEPT ![s] = <<>>]
    /\ fpos' = [fpos EXCEPT ![s].event = @ + 1]
    /\ r_pc' = [r_pc EXCEPT ![s] = "idle"]
    /\ drain' = [drain EXCEPT !.delivered[s] = IF copied THEN @ + 1 ELSE @]
    /\ UNCHANGED <<shared, emit_vars, write_vars, open, now, logged, dropped, stamped, kmod, corrupt,
                   reentered, calls, tainted>>

\* ttp_read of src/unnamed/part_001, lines 141-148: as above, but the line
\* is formatted with semicolons and ret = copy_to_user(out, tmp, ret), the
\* number of bytes that could not be copied, is what the read returns
ReadFetch_001(s, copied) ==
    /\ r_pc[s] = "fetch"
    /\ \E ev \in Fetched(s) :
        LET tmp == FormatLine_001(ev.id, fpos[s].cpu, ev.abstime) IN
        IF copied
        THEN /\ r_ret' = [r_ret EXCEPT ![s] = 0]
             /\ out' = [out EXCEPT ![s] = IF clean[s] THEN Append(@, tmp) ELSE @]
             /\ UNCHANGED clean
        ELSE /\ \E left \in {1, Len(tmp)} : r_ret' = [r_ret EXCEPT ![s] = left]
             /\ clean' = [clean EXCEPT ![s] = FALSE]
             /\ out' = [out EXCEPT ![s] = <<>>]
    /\ fpos' = [fpos EXCEPT ![s].event = @ + 1]
    /\ r_pc' = [r_pc EXCEPT ![s] = "idle"]
    /\ drain' = [drain EXCEPT !.delivered[s] = IF copied THEN @ + 1 ELSE @]
    /\ UNCHANGED <<shared, emit_vars, write_vars, open, now, logged, dropped, stamped, kmod, corrupt,
                   reentered, calls, tainted>>

(***************************************************************************)
(* The recorder with its emitters, command writers and readers.            *)
(***************************************************************************)
\* The steps of a recorder under a population p of users: the CPUs and
\* interrupt levels emits are called from and the ids they pass (emits: how many of
\* them read a clock; drops: how many when the calls go on on a CPU whose
\* storage is full), the writers and the strings they write
\* (faults: whether copy_from_user may fail), the sessions and the buffer
\* sizes they read with (copies: the outcomes of copy_to_user in the
\* ttp_read of part_000, copies_001: in that of part_001, for a device that
\* has the one or the other).
NextOf(p) ==
    \/ \E u \in p.cpus, l \in p.levels, id \in p.ids :
          EmitCall(u, l, id, IF storage[u].eventcount >= max_events
                             THEN p.drops ELSE p.emits)
    \/ \E u \in Cpus, l \in p.levels : EmitClock(u, l)
    \/ \E u \in Cpus, l \in p.levels : EmitCap(u, l)
    \/ \E u \in Cpus, l \in p.levels : EmitDrop(u, l)
    \/ \E u \in Cpus, l \in p.levels : EmitStore(u, l)
    \/ \E w \in p.writers, in \in p.inputs, fault \in p.faults :
          WriteCall(w, in, fault)
    \/ \E w \in p.writers : WriteLock(w)
    \/ \E w \in p.writers : WriteCmd(w)
    \/ \E w \in p.writers : WriteReset(w)
    \/ \E w \in p.writers : WriteUnlock(w)
    \/ \E s \in p.sessions : Open(s)
    \/ \E s \in p.sessions : Release(s)
    \/ \E s \in p.sessions, size \in p.sizes : ReadCall(s, size)
    \/ \E s \in p.sessions : ReadAgain(s)
    \/ \E s \in p.sessions, copied \in p.copies : ReadFetch(s, copied)
    \/ \E s \in p.sessions, copied \in p.copies_001 : ReadFetch_001(s, copied)

\* capture and control: emitters, one writer, the three capture commands
Capture ==
    [cpus |-> Cpus, levels |-> {"task"}, ids |-> Ids, emits |-> MaxEmits,
     drops |-> MaxEmits,
     writers |-> {"w1"}, inputs |-> {S_start, S_stop, S_reset},
     faults |-> BOOLEAN, sessions |-> {}, sizes |-> {}, copies |-> {},
     copies_001 |-> {}]
\* capture and drain: emitters, the capture commands, one reading session
\* (the events are told apart by their time stamps)
Drain ==
    [cpus |-> Cpus, levels |-> {"task"}, ids |-> {5}, emits |-> MaxEmits,
     drops |-> MaxEmits,
     writers |-> {"w1"}, inputs |-> {S_start, S_stop, S_reset},
     faults |-> {FALSE}, sessions |-> Sessions, sizes |-> Sizes,
     copies |-> BOOLEAN, copies_001 |-> {}]

\* capture and control with emits called from interrupts as well
Nested == [Capture EXCEPT !.levels = Levels]
\* capture and drain on a device whose ttp_read is that of part_001, with
\* a reader whose buffer can always be written
Drain_001 == [Drain EXCEPT !.copies = {}, !.copies_001 = {TRUE}]
\* control: every string of Inputs is written, the clock commands included,
\* while one CPU emits
Control ==
    [Capture EXCEPT !.cpus = {0}, !.ids = {5}, !.inputs = Inputs,
                    !.faults = {FALSE}]
\* a storm of drops: the emit calls of one CPU go on on its full storage
\* until suppress_error has gone once around its 8 bits
StormEmits == max_events + UCHAR_MOD + 1
Storm ==
    [Capture EXCEPT !.cpus = {0}, !.ids = {5}, !.faults = {FALSE},
                    !.drops = StormEmits]

\* two writers issue commands at the same time while one CPU emits
Pair ==
    [Capture EXCEPT !.cpus = {0}, !.ids = {5}, !.writers = Writers,
                    !.inputs = {S_start, S_stop, S_reset, S_1},
                    !.faults = {FALSE}]

\* nobody can reach a device that is not registered
Nobody ==
    [cpus |-> {}, levels |-> {}, ids |-> {}, emits |-> 0, drops |-> 0,
     writers |-> {}, inputs |-> {}, faults |-> {}, sessions |-> {},
     sizes |-> {}, copies |-> {}, copies_001 |-> {}]
\* the users of the module: none until ttp_init has succeeded, then one
\* emitting CPU and one writer, until ttp_exit
Loaded ==
    IF kmod.pc = "live"
    THEN [Capture EXCEPT !.cpus = {0}, !.ids = {5}, !.faults = {FALSE}]
    ELSE Nobody

Next == NextOf(Capture)
NextDrain == NextOf(Drain)
NextNested == NextOf(Nested)
NextDrain_001 == NextOf(Drain_001)
NextControl == NextOf(Control)
NextStorm == NextOf(Storm)
NextPair == NextOf(Pair)
NextLoad ==
    \/ \E ok \in BOOLEAN : InitStorage(ok)
    \/ \E ok \in BOOLEAN : InitEvents(ok)
    \/ \E err \in {0, -EBUSY} : InitRegister(err)
    \/ Exit
    \/ NextOf(Loaded)

Spec == Init /\ [][Next]_vars
SpecDrain == Init /\ [][NextDrain]_vars
SpecNested == Init /\ [][NextNested]_vars
SpecDrain_001 == Init /\ [][NextDrain_001]_vars
SpecControl == Init /\ [][NextControl]_vars
SpecStorm == Init /\ [][NextStorm]_vars
SpecPair == Init /\ [][NextPair]_vars
SpecLoad == InitLoad /\ [][NextLoad]_vars

(***************************************************************************)
(* Properties.                                                             *)
(***************************************************************************)
Running(u) == \E l \in Levels : e_pc[u][l] # "idle"
\* the armed calls on CPU u that have returned
Returned(u) == Len(calls[u]) - (IF Running(u) THEN 1 ELSE 0)

\* C1: on a CPU whose storage was empty and whose armed emit calls since
\* were neither re-entered nor crossed by a reset, as long as no more calls
\* than max_events have returned, eventcount is the number of returned calls
\* and slot i holds the id of call i+1: the slots are in call order.
C1_SlotsInCallOrder ==
    \A u \in Cpus :
        (~tainted[u] /\ Returned(u) <= max_events) =>
            /\ storage[u].eventcount = Returned(u)
            /\ \A i \in 0 .. (Returned(u) - 1) :
                  storage[u].events[i].id = calls[u][i + 1]

C1_Witness ==
    \E u \in Cpus :
        /\ ~tainted[u] /\ ~Running(u)
        /\ calls[u] = <<7, 5>>
        /\ storage[u].eventcount = 2
        /\ storage[u].events[0].id = 7 /\ storage[u].events[1].id = 5

\* C2: on a CPU where emit is never re-entered, 0 <= eventcount <=
\* max_events in every state; an emit that finds eventcount = max_events
\* takes the drop path, and dropping leaves every count and slot as it was.
C2_CountWithinCapacity ==
    /\ [](\A u \in Cpus :
            ~reentered[u] => storage[u].eventcount \in 0 .. max_events)
    /\ [][\A u \in Cpus, l \in Levels :
            /\ (EmitCap(u, l) /\ storage[u].eventcount = max_events) =>
                  (e_pc'[u][l] = "drop" /\ storage' = storage)
            /\ EmitDrop(u, l) =>
                  (e_pc'[u][l] = "idle" /\ storage' = storage)]_vars

C2_Witness ==
    \E u \in Cpus :
        /\ ~reentered[u]
        /\ storage[u].eventcount = max_events
        /\ e_pc[u]["task"] = "drop"

\* the decimal number a string of digits stands for, and the fields of a
\* line "<id>,<cpu>,<abstime>\n"
DigitValue(c) == CHOOSE d \in 0 .. 9 : Digits[d + 1] = c
RECURSIVE ParseFrom(_, _, _, _)
ParseFrom(line, i, number, fields) ==
    IF i > Len(line) THEN fields
    ELSE IF line[i] \in {",", "\n"}
    THEN ParseFrom(line, i + 1, 0, Append(fields, number))
    ELSE ParseFrom(line, i + 1, 10 * number + DigitValue(line[i]), fields)
ParseLine(line) == ParseFrom(line, 1, 0, <<>>)

\* the recorded events of the storages u, u+1, ... as <<id, cpu, abstime>>
RECURSIVE RecordedFrom(_)
RecordedFrom(u) ==
    IF u >= ttp_cpus THEN <<>>
    ELSE [i \in 1 .. Min(storage[u].eventcount, max_events) |->
            <<storage[u].events[i - 1].id, u, storage[u].events[i - 1].abstime>>]
         \o RecordedFrom(u + 1)
Recorded == RecordedFrom(0)

\* C3: a session opened on a stopped, quiescent recorder and reading with
\* no command or emit in between has received, in this order, one line
\* <id>,<cpu>,<abstime> for each recorded event before its cursor (storages
\* in ascending order, each in slot order, empty storages skipped) and
\* nothing else; a read fetches only while events are left, and a read has
\* returned 0 only once every recorded event has been delivered.
C3_DrainDeliversRecorded ==
    \A s \in Sessions :
        (open[s] /\ clean[s] /\ \A u \in Cpus : ~reentered[u]) =>
            /\ Len(out[s]) <= Len(Recorded)
            /\ [i \in 1 .. Len(out[s]) |-> ParseLine(out[s][i])]
                  = SubSeq(Recorded, 1, Len(out[s]))
            /\ r_pc[s] = "fetch" => Len(out[s]) < Len(Recorded)
            /\ (r_pc[s] = "idle" /\ r_ret[s] = 0) => Len(out[s]) = Len(Recorded)
            /\ (r_pc[s] = "idle" /\ r_ret[s] > 0) =>
                  (out[s] # <<>> /\ r_ret[s] = Len(out[s][Len(out[s])]))

C3_Witness ==
    \E s \in Sessions :
        /\ open[s] /\ clean[s]
        /\ storage[0].eventcount = 1 /\ storage[1].eventcount = 2
        /\ Len(out[s]) = 3
        /\ r_pc[s] = "idle" /\ r_ret[s] = 0

\* C4: a read that finds capture armed returns -EBUSY, whatever the size of
\* the buffer, the cursor and the storages, and changes neither the cursor
\* nor a storage.
C4_ReadWhileArmedBusy ==
    [][\A s \in Sessions, size \in Sizes :
          (ReadCall(s, size) /\ ttp_enabled) =>
              /\ r_ret'[s] = -EBUSY
              /\ r_pc'[s] = "idle"
              /\ fpos' = fpos
              /\ storage' = storage]_vars

C4_Witness ==
    \E s \in Sessions :
        /\ ttp_enabled
        /\ r_pc[s] = "idle" /\ r_ret[s] = -EBUSY
        /\ fpos[s].event > 0
        /\ \E u \in Cpus : storage[u].eventcount > 0

\* C5: no read is about to fetch an event while capture is armed or while
\* an emit is about to store one.
C5_NoDrainDuringCapture ==
    \A s \in Sessions :
        r_pc[s] = "fetch" =>
            /\ ~ttp_enabled
            /\ \A u \in Cpus, l \in Levels : e_pc[u][l] # "store"

\* C6: the emit running on a CPU (the innermost, when emits are nested) can
\* always take its next step, whoever holds ttp_lock, and returns with its
\* fourth step at the latest.
C6_EmitNeverWaits ==
    \A u \in Cpus, l \in Levels :
        e_pc[u][l] # "idle" =>
            /\ e_steps[u][l] \in 1 .. 3
            /\ Runnable(u, l) => ENABLED EmitStep(u, l)

C6_Witness ==
    \E u \in Cpus, w \in Writers :
        /\ ttp_lock = w
        /\ e_pc[u]["task"] = "store"
        /\ e_pc[u]["irq"] = "idle"

\* C7: an emit call that finds capture not armed returns at once and
\* changes nothing: no count, no slot, not ttp_enabled, ttp_clock or
\* suppress_error, and nothing is logged.
C7_UnarmedEmitNoop ==
    [][\A u \in Cpus, l \in Levels, id \in Ids :
          (EmitCall(u, l, id, MaxEmits) /\ ~ttp_enabled) =>
              /\ e_pc'[u][l] = "idle"
              /\ UNCHANGED <<ttp_enabled, ttp_clock, suppress_error, storage,
                             logged>>]_vars

C7_Witness ==
    /\ ~ttp_enabled
    /\ \E u \in Cpus :
          /\ storage[u].eventcount > 0
          /\ ENABLED EmitCall(u, "task", 5, MaxEmits)

\* writer w is about to carry out the command written as the bare token
Holds(w, token) ==
    w_pc[w] = "cmd" /\ w_input[w] = token /\ w_len[w] = Len(token)
\* writer w has carried out the bare token and is about to return
Did(w, token) ==
    w_pc[w] = "unlock" /\ w_input[w] = token /\ w_len[w] = Len(token)

\* C8: "start" on an armed recorder gives -EBUSY and leaves ttp_enabled,
\* ttp_clock and the storages as they were; on a disarmed one it succeeds
\* and sets ttp_enabled.
C8_StartBusyWhenArmed ==
    [][\A w \in Writers :
          (WriteCmd(w) /\ Holds(w, S_start)) =>
              /\ w_pc'[w] = "unlock"
              /\ UNCHANGED <<ttp_clock, storage>>
              /\ IF ttp_enabled
                 THEN w_ret'[w] = -EBUSY /\ ttp_enabled'
                 ELSE w_ret'[w] = Len(S_start) /\ ttp_enabled']_vars

C8_Witness ==
    \E w \in Writers :
        /\ Did(w, S_start) /\ w_armed[w]
        /\ w_ret[w] = -EBUSY /\ ttp_enabled
        /\ \E u \in Cpus : storage[u].eventcount > 0

\* C9: "stop" always succeeds and leaves capture disarmed with ttp_clock
\* and the storages as they were; on a disarmed recorder it changes nothing,
\* so a second stop gives the state the first one gave.
C9_StopIdempotent ==
    [][\A w \in Writers :
          (WriteCmd(w) /\ Holds(w, S_stop)) =>
              /\ w_pc'[w] = "unlock"
              /\ w_ret'[w] = Len(S_stop)
              /\ ~ttp_enabled'
              /\ UNCHANGED <<ttp_clock, storage, suppress_error>>
              /\ ~ttp_enabled => UNCHANGED shared]_vars

C9_Witness ==
    \E w \in Writers :
        /\ Did(w, S_stop) /\ ~w_armed[w]
        /\ w_ret[w] = Len(S_stop) /\ ~ttp_enabled
        /\ \E u \in Cpus : storage[u].eventcount > 0

\* C10: "reset" on an armed recorder gives -EINVAL and leaves every count
\* and slot as it was.
C10_ResetRefusedWhenArmed ==
    [][\A w \in Writers :
          (WriteCmd(w) /\ Holds(w, S_reset) /\ ttp_enabled) =>
              /\ w_pc'[w] = "unlock"
              /\ w_ret'[w] = -EINVAL
              /\ UNCHANGED <<storage, ttp_enabled>>]_vars
    /\ [](\A w \in Writers : w_pc[w] = "reset" => ~w_armed[w])

C10_Witness ==
    \E w \in Writers :
        /\ Did(w, S_reset) /\ w_armed[w]
        /\ w_ret[w] = -EINVAL /\ ttp_enabled
        /\ \E u \in Cpus : storage[u].eventcount > 0

\* C11: "reset" on a disarmed recorder enters the loop, every round of which
\* sets the count of its storage to 0 and leaves ttp_enabled, ttp_clock, the
\* other counts and every events array (the slots stay allocated, with their
\* contents) as they were; when the command is about to return, the count
\* of every CPU on which no emit was running when it was zeroed is 0.  A
\* session opened on the quiescent recorder while every count is 0 is never
\* about to fetch, has been delivered nothing, and its reads return 0.
C11_ResetEmptiesStorages ==
    /\ [][\A w \in Writers :
            /\ (WriteCmd(w) /\ Holds(w, S_reset) /\ ~ttp_enabled) =>
                  (w_pc'[w] = "reset" /\ w_i'[w] = 0 /\ UNCHANGED shared)
            /\ WriteReset(w) =>
                  /\ storage'[w_i[w]].eventcount = 0
                  /\ \A u \in Cpus :
                        /\ storage'[u].events = storage[u].events
                        /\ u # w_i[w] =>
                              storage'[u].eventcount = storage[u].eventcount
                  /\ UNCHANGED <<ttp_enabled, ttp_clock>>
                  /\ (w_i[w] = ttp_cpus - 1) =>
                        (w_pc'[w] = "unlock" /\ w_ret'[w] = w_len[w])]_vars
    /\ [](\A w \in Writers :
            (Did(w, S_reset) /\ ~w_armed[w]) =>
                \A u \in Cpus : ~tainted[u] => storage[u].eventcount = 0)
    /\ [](\A s \in Sessions :
            (open[s] /\ clean[s] /\ \A u \in Cpus : storage[u].eventcount = 0)
                => /\ r_pc[s] # "fetch"
                   /\ out[s] = <<>>
                   /\ fpos[s].event = 0
                   /\ r_pc[s] = "idle" => r_ret[s] \in {NoRet, 0, -ENOSPC})

\* a session has read end-of-stream on a recorder whose counts are 0 while
\* a slot still holds an event recorded before the reset
C11_Witness ==
    \E s \in Sessions :
        /\ open[s] /\ clean[s]
        /\ r_pc[s] = "idle" /\ r_ret[s] = 0
        /\ \A u \in Cpus : storage[u].eventcount = 0
        /\ \E u \in Cpus : storage[u].events[0].id # 0

\* C12: "0" and "1" on an armed recorder give -EBUSY and leave ttp_clock as
\* it was; on a disarmed one they succeed and set ttp_clock to
\* CLOCK_REALTIME and CLOCK_MONOTONIC.  ttp_clock does not change from one
\* armed state to the next, and an emit that reads the clock while capture
\* is armed takes its time stamp from the clock ttp_clock selects.
C12_ClockSelectedWhenDisarmed ==
    /\ [][\A w \in Writers, token \in {S_0, S_1} :
            (WriteCmd(w) /\ Holds(w, token)) =>
                /\ w_pc'[w] = "unlock"
                /\ UNCHANGED <<ttp_enabled, storage>>
                /\ IF ttp_enabled
                   THEN w_ret'[w] = -EBUSY /\ ttp_clock' = ttp_clock
                   ELSE /\ w_ret'[w] = 1
                        /\ ttp_clock' = IF token = S_0 THEN CLOCK_REALTIME
                                        ELSE CLOCK_MONOTONIC]_vars
    /\ [][(ttp_enabled /\ ttp_enabled') => ttp_clock' = ttp_clock]_vars
    /\ [][\A u \in Cpus, l \in Levels :
            (EmitClock(u, l) /\ ttp_enabled) =>
                /\ e_pc'[u][l] = "cap"
                /\ ClockOf(e_ev'[u][l].abstime) = ttp_clock]_vars

\* "0" has just been refused on a recorder that was switched to the monotonic
\* clock, then armed, and has recorded an event stamped by that clock
C12_Witness ==
    \E w \in Writers :
        /\ Did(w, S_0) /\ w_armed[w] /\ w_ret[w] = -EBUSY
        /\ ttp_enabled /\ ttp_clock = CLOCK_MONOTONIC
        /\ \E u \in Cpus :
              /\ storage[u].eventcount > 0
              /\ ClockOf(storage[u].events[0].abstime) = CLOCK_MONOTONIC

\* the five command tokens, and a string without its leading and trailing
\* white space
Tokens == {S_start, S_stop, S_reset, S_0, S_1}
Trimmed(s) ==
    SubSeq(strim(s).buf, strim(s).ret, Len(strim(s).buf))

\* C13: a written string that, trimmed, is none of the five tokens (the empty
\* string and proper prefixes of a token included) is answered with -EINVAL
\* and changes neither ttp_enabled nor ttp_clock nor a storage.
C13_ExactMatch ==
    [][\A w \in Writers :
          (WriteCmd(w) /\ Trimmed(w_input[w]) \notin Tokens) =>
              /\ w_pc'[w] = "unlock"
              /\ w_ret'[w] = -EINVAL
              /\ UNCHANGED shared]_vars

\* C14: a token written with white space before or after it is carried out
\* as the bare token is.
C14_WhitespaceIgnored ==
    \A w \in Writers :
        (w_pc[w] = "cmd" /\ Trimmed(w_input[w]) \in Tokens) =>
            Command(w_input[w], w_len[w])
                = Command(Trimmed(w_input[w]), Len(Trimmed(w_input[w])))

\* C15 as stated: a read with a buffer of less than 128 bytes returns
\* -ENOSPC, armed or not, and leaves the cursor where it was.
C15_UndersizedAlwaysNoSpace ==
    [][\A s \in Sessions, size \in Sizes :
          (ReadCall(s, size) /\ size < TMP_SIZE) =>
              (r_ret'[s] = -ENOSPC /\ fpos' = fpos)]_vars

\* C15, amended: a read with a buffer of less than 128 bytes fails, with
\* -EBUSY when capture is armed and with -ENOSPC when it is not; it fetches
\* and delivers nothing and leaves the cursor where it was.
C15_UndersizedNeverDelivers ==
    [][\A s \in Sessions, size \in Sizes :
          (ReadCall(s, size) /\ size < TMP_SIZE) =>
              /\ r_ret'[s] = IF ttp_enabled THEN -EBUSY ELSE -ENOSPC
              /\ r_pc'[s] = "idle"
              /\ fpos' = fpos /\ out' = out /\ storage' = storage]_vars

\* a read has been refused with -ENOSPC in the middle of a drain
C15_Witness ==
    \E s \in Sessions :
        /\ ~ttp_enabled
        /\ r_pc[s] = "idle" /\ r_ret[s] = -ENOSPC
        /\ fpos[s].event > 0
        /\ fpos[s].event < storage[fpos[s].cpu].eventcount

\* C16: a read that has fetched a record and does not fail returns the
\* length, greater than 0, of the one line <id>,<cpu>,<abstime>\n it has
\* delivered, and has moved the cursor on by exactly one event; a read has
\* returned 0 only with the cursor behind the last storage.
C16_RecordReadsArePositive ==
    /\ [][\A s \in Sessions :
            (r_pc[s] = "fetch" /\ r_pc'[s] = "idle" /\ r_ret'[s] >= 0) =>
                /\ r_ret'[s] > 0
                /\ \E ev \in Fetched(s) :
                      LET line == FormatLine(ev.id, fpos[s].cpu, ev.abstime) IN
                      /\ r_ret'[s] = Len(line)
                      /\ clean[s] => out'[s] = Append(out[s], line)
                /\ fpos'[s] = [fpos[s] EXCEPT !.event = @ + 1]]_vars
    /\ [](\A s \in Sessions :
            (r_pc[s] = "idle" /\ r_ret[s] = 0) => fpos[s].cpu = ttp_cpus)

\* C17: a read returns 0 only with the cursor behind the last storage, and
\* from then on, whatever is started, emitted, stopped or reset, no step
\* moves the cursor of the open session, no read of it fetches, and its
\* reads return 0 or fail with -EBUSY or -ENOSPC.
C17_EndOfStreamAbsorbing ==
    /\ [](\A s \in Sessions :
            (r_pc[s] = "idle" /\ r_ret[s] = 0) =>
                fpos[s] = [cpu |-> ttp_cpus, event |-> 0])
    /\ [][\A s \in Sessions :
            (open[s] /\ open'[s] /\ fpos[s].cpu = ttp_cpus) =>
                /\ fpos'[s] = fpos[s]
                /\ r_pc'[s] \in {"idle", "again"}
                /\ r_ret'[s] \in {0, NoRet, -EBUSY, -ENOSPC}
                /\ ReadAgain(s) => r_ret'[s] = 0]_vars

\* a session at the end of the stream has read 0 on a recorder that was
\* used since the session was opened and holds events
C17_Witness ==
    \E s \in Sessions :
        /\ open[s] /\ ~clean[s] /\ ~ttp_enabled
        /\ r_pc[s] = "idle" /\ r_ret[s] = 0
        /\ fpos[s].cpu = ttp_cpus
        /\ \A u \in Cpus : storage[u].eventcount > 0

\* C18: however many events are dropped, "Max Events reached" is printed
\* once: never twice, and once as soon as an event has been dropped.
C18_OverflowLoggedOnce ==
    /\ logged <= 1
    /\ dropped => logged = 1

\* C19: the first event dropped after capture is armed is logged, in every
\* capture session.
C19_FirstDropOfSessionLogged ==
    [][\A u \in Cpus, l \in Levels :
          (EmitDrop(u, l) /\ ~dropped) => logged' = logged + 1]_vars

\* C20: a step that increases an event count is taken with capture armed,
\* and a round of the reset loop is taken with capture disarmed and no emit
\* in flight on any CPU.
C20_ResetAndEmitDisjoint ==
    [][/\ \A u \in Cpus :
             storage'[u].eventcount > storage[u].eventcount => ttp_enabled
       /\ (\E w \in Writers : WriteReset(w)) => (~ttp_enabled /\ EmitIdle)]_vars

\* C21: no step taken with capture armed changes the clock selector, and the
\* events appended since capture was last armed, while it stays armed, were
\* all stamped by one clock.
C21_OneClockPerSession ==
    /\ [][ttp_enabled => ttp_clock' = ttp_clock]_vars
    /\ [](Cardinality(stamped) <= 1)

\* C22: while capture is disarmed, a session has been delivered no more
\* records since capture was last stopped than the storages held in total
\* at that moment.
C22_DrainBounded ==
    \A s \in Sessions :
        (open[s] /\ ~ttp_enabled) => drain.delivered[s] <= drain.total

\* C27: the cursor of an open session that has not passed the last storage
\* never points behind the events its storage holds, and a read that is
\* about to format a slot points at a recorded event.
C27_CursorWithinCount ==
    \A s \in Sessions :
        (open[s] /\ fpos[s].cpu < ttp_cpus) =>
            /\ fpos[s].event <= storage[fpos[s].cpu].eventcount
            /\ r_pc[s] = "fetch" =>
                  fpos[s].event < storage[fpos[s].cpu].eventcount

\* C28: the step in which a read returns an error (-EBUSY, -ENOSPC, or
\* -EINVAL for a failed copy) does not move the cursor of its session.
C28_FailedReadKeepsCursor ==
    [][\A s \in Sessions :
          r_ret'[s] \in {-EBUSY, -ENOSPC, -EINVAL} => fpos'[s] = fpos[s]]_vars

\* C29: also where emits are re-entered from interrupts, no emit writes a
\* slot at an index of max_events or more, and no event count exceeds
\* max_events.
C29_ReentrantEmitBounded ==
    /\ ~corrupt
    /\ \A u \in Cpus : storage[u].eventcount <= max_events

\* C23: a step of an emit running on CPU u leaves the count and the slots
\* of the storage of every other CPU, ttp_enabled and ttp_clock as they
\* were; what it changes of the storages is an append to the storage of u.
C23_EmitTouchesOwnShard ==
    [][\A u \in Cpus, l \in Levels, id \in Ids :
          (EmitCall(u, l, id, MaxEmits) \/ EmitStep(u, l)) =>
              /\ \A v \in Cpus \ {u} : storage'[v] = storage[v]
              /\ ttp_enabled' = ttp_enabled
              /\ ttp_clock' = ttp_clock
              /\ storage' # storage => EmitStore(u, l)]_vars

\* an emit has stored on one CPU while the other CPU holds an event and an
\* emit is in flight there
C23_Witness ==
    \E u \in Cpus : \E v \in Cpus \ {u} :
        /\ ~Running(u)
        /\ storage[u].eventcount = 1
        /\ storage[v].eventcount = 1
        /\ e_pc[v]["task"] # "idle"

\* C30: a start or stop command leaves every storage as it was; a step that
\* is no round of the reset loop and changes a storage appends one event at
\* slot index eventcount, keeping every other slot; only a round of the
\* reset loop decreases an event count.
C30_StartStopKeepShards ==
    [][/\ \A w \in Writers :
             (WriteCmd(w) /\ Command(w_input[w], w_len[w]) \in {"start", "stop"})
                 => storage' = storage
       /\ \A u \in Cpus :
             (storage'[u] # storage[u] /\ ~\E w \in Writers : WriteReset(w)) =>
                 /\ storage'[u].eventcount = storage[u].eventcount + 1
                 /\ \A i \in 0 .. max_events - 1 :
                       i # storage[u].eventcount =>
                           storage'[u].events[i] = storage[u].events[i]
       /\ \A u \in Cpus :
             storage'[u].eventcount < storage[u].eventcount =>
                 \E w \in Writers : WriteReset(w)]_vars

\* the first MAX_INPUT_SIZE bytes of a written string
Head31(in) == SubSeq(in, 1, Min(Len(in), MAX_INPUT_SIZE))

\* C26: a write takes the number of bytes written, 31 at most, as its
\* length; written strings that agree in their first 31 bytes lead to the
\* same state, so to the same command; and a write that succeeds returns
\* that length: 31 for a write of more than 31 bytes, len otherwise.
C26_LongWriteTruncated ==
    [][\A w \in Writers :
          /\ (w_pc[w] = "idle" /\ w_pc'[w] = "lock") =>
                \A in \in Inputs :
                    WriteCall(w, in, FALSE) =>
                        /\ w_len'[w] = IF Len(in) > 31 THEN 31 ELSE Len(in)
                        /\ \A other \in Inputs :
                              Head31(other) = Head31(in) =>
                                  WriteCall(w, other, FALSE)
          /\ (w_pc[w] \in {"cmd", "reset"} /\ w_pc'[w] = "unlock"
                /\ w_ret'[w] >= 0) => w_ret'[w] = w_len[w]]_vars

\* a write of "stop", 27 blanks and more has stopped capture and returns 31
C26_Witness ==
    \E w \in Writers :
        /\ w_pc[w] = "unlock"
        /\ w_input[w] = S_stop /\ w_len[w] = 31 /\ w_ret[w] = 31
        /\ w_armed[w] /\ ~ttp_enabled

\* ttp_enabled as the command of the ended call r left it
ArmedAfter(r) ==
    IF Command(r.input, r.len) = "start" THEN TRUE
    ELSE IF Command(r.input, r.len) = "stop" THEN FALSE
    ELSE r.armed

\* C24: a writer is between spin_lock and spin_unlock exactly when it holds
\* ttp_lock, so one at a time; ttp_enabled and ttp_clock change, and event
\* counts are zeroed, only in steps of the holder's command; a write that
\* returns held the lock and frees it; and of two writes under way at the
\* same time the one served second finds capture armed or disarmed as the
\* first left it: the writes have the outcome of running one after the
\* other, and of two such "start"s the first succeeds and the second gets
\* -EBUSY.
C24_CommandsSerialized ==
    /\ [](\A w \in Writers :
            w_pc[w] \in {"cmd", "reset", "unlock"} <=> ttp_lock = w)
    /\ [][/\ (\/ ttp_enabled' # ttp_enabled
              \/ ttp_clock' # ttp_clock
              \/ \E u \in Cpus :
                    storage'[u].eventcount < storage[u].eventcount) =>
                \E w \in Writers :
                    ttp_lock = w /\ (WriteCmd(w) \/ WriteReset(w))
          /\ \A w \in Writers :
                (w_pc[w] # "idle" /\ w_pc'[w] = "idle") =>
                    (ttp_lock = w /\ ttp_lock' = "free")
          /\ \A w \in Writers :
                WriteUnlock(w) =>
                    \A x \in Writers \ {w} :
                        w_last[x].ended =>
                            /\ w_armed[w] = ArmedAfter(w_last[x])
                            /\ (/\ Command(w_input[w], w_len[w]) = "start"
                                /\ Command(w_last[x].input, w_last[x].len)
                                       = "start") =>
                                   /\ w_ret[w] = -EBUSY
                                   /\ ~w_last[x].armed =>
                                          w_last[x].ret = w_last[x].len]_vars

\* two "start"s were under way on a disarmed recorder at the same time: the
\* one served first has succeeded, the other is about to return -EBUSY
C24_Witness ==
    \E w \in Writers : \E x \in Writers \ {w} :
        /\ Did(w, S_start) /\ w_ret[w] = -EBUSY
        /\ w_last[x].ended /\ w_last[x].input = S_start
        /\ ~w_last[x].armed /\ w_last[x].ret = Len(S_start)

\* C25: when ttp_init has failed it has returned an error and none of the
\* allocations it made is live any more.
C25_FailedInitReleasesAll ==
    kmod.pc = "failed" => (kmod.err < 0 /\ kmod.live = {})

\* C31: ttp_clock is CLOCK_REALTIME or CLOCK_MONOTONIC in every state, and
\* every emit that has passed the test of ttp_enabled and reads the clock,
\* whether capture is still armed or a clock command runs meanwhile, goes on
\* to the capacity test with a time stamp: the unknown-clock branch is
\* never taken.
C31_ClockAlwaysKnown ==
    /\ [](ttp_clock \in {CLOCK_REALTIME, CLOCK_MONOTONIC})
    /\ [][\A u \in Cpus, l \in Levels :
            EmitClock(u, l) =>
                /\ e_pc'[u][l] = "cap"
                /\ now' = now + 1
                /\ ClockOf(e_ev'[u][l].abstime) = ttp_clock]_vars

\* an emit that was under way when capture was stopped has read the
\* monotonic clock while the command "1" that selected it still held the lock
C31_Witness ==
    \E w \in Writers, u \in Cpus :
        /\ Did(w, S_1) /\ ~w_armed[w] /\ w_ret[w] = 1
        /\ ~ttp_enabled /\ ttp_clock = CLOCK_MONOTONIC
        /\ e_pc[u]["task"] = "cap"
        /\ ClockOf(e_ev[u]["task"].abstime) = CLOCK_MONOTONIC

====
